---- MODULE Spec2Model ----
(***************************************************************************)
(* A model of the <vcf-slider> web component (src/src/vcf-slider.ts): the  *)
(* reactive properties min, max, step, ranges, value and rtl, Lit's update *)
(* cycle (updated), the keyboard stepper (keyMove and the                  *)
(* decrease/increaseKnobValue* family), the pointer-to-value mapper (drag  *)
(* and its requestAnimationFrame callback) and the DOM state the slider    *)
(* writes (knob elements, aria attributes, knob positions, the 'active'    *)
(* class of knobs and tooltips with its timer, the value-changed event),   *)
(* and of the template element <vaadin-slider> (src/unnamed/part_004).     *)
(*                                                                         *)
(* Numbers are JavaScript numbers restricted to the integers plus NaN.     *)
(* Pixel positions are exact rationals [n, d] (n/d, d > 0).  Steps are     *)
(* integers, so decimalCount is 0 and the decimal "multiplier" branch of   *)
(* drag is never entered.  The value property is a number or an array      *)
(* (valueIsArray); the string form of the value attribute is not           *)
(* modelled.  The vertical property only selects the axis and is omitted.  *)
(***************************************************************************)
EXTENDS Integers, Sequences, FiniteSets, TLC

(***************************************************************************)
(* Bounds of the model.                                                    *)
(***************************************************************************)
\* min ranges over -MaxMin .. MaxMin
MaxMin == 1
\* max - min ranges over 0 .. MaxLength
MaxLength == 3
\* valid steps range over 1 .. MaxStep
MaxStep == 4
\* ranges ranges over 0 .. MaxRanges (1, 2, .. 2*MaxRanges knobs)
MaxRanges == 2
\* ... and over 0 .. MaxRangesSmall in the drag, value and property
\* specifications
MaxRangesSmall == 1
\* at most this many animation-frame callbacks are pending at once
MaxRaf == 1
\* the page assigns at most this many properties before an update cycle runs
MaxBatch == 1
\* in the reconfiguration specification min ranges over 0 .. MaxShift and
\* max over MaxLength - MaxShift .. MaxLength
MaxShift == 1
\* ... and step over 1 .. MaxStepSmall
MaxStepSmall == 2

(***************************************************************************)
(* JavaScript numbers.                                                     *)
(***************************************************************************)
\* NaN; undefined behaves as NaN in every arithmetic the slider does.
NaN == 0 - 1000000

isNaN(x) == x = NaN

Abs(x) == IF x < 0 THEN 0 - x ELSE x

\* a + b, a - b
JsAdd(a, b) == IF isNaN(a) \/ isNaN(b) THEN NaN ELSE a + b

JsSub(a, b) == IF isNaN(a) \/ isNaN(b) THEN NaN ELSE a - b

\* a % b: the remainder has the sign of the dividend; x % 0 is NaN.
JsRem(a, b) ==
  IF isNaN(a) \/ isNaN(b) \/ b = 0 THEN NaN
  ELSE IF a < 0 THEN 0 - ((0 - a) % Abs(b)) ELSE a % Abs(b)

\* a < b, a > b, a >= b: false when either side is NaN
JsLt(a, b) == ~isNaN(a) /\ ~isNaN(b) /\ a < b

JsGt(a, b) == ~isNaN(a) /\ ~isNaN(b) /\ a > b

JsGe(a, b) == ~isNaN(a) /\ ~isNaN(b) /\ a >= b

\* truthiness of a number: 0 and NaN (and undefined) are falsy
Truthy(x) == ~isNaN(x) /\ x # 0

\* a || b
JsOr(a, b) == IF Truthy(a) THEN a ELSE b

\* Math.max / Math.min of a non-empty finite set of numbers
MathMax(S) == IF NaN \in S THEN NaN ELSE CHOOSE x \in S : \A y \in S : y <= x

MathMin(S) == IF NaN \in S THEN NaN ELSE CHOOSE x \in S : \A y \in S : x <= y

\* a[i] of a JavaScript array held as a 1-based sequence; i is 0-based
At(a, i) == IF i + 1 \in DOMAIN a THEN a[i + 1] ELSE NaN

\* Math.round(n / d) for integers n and d > 0 (halves round up)
RoundDiv(n, d) == (2 * n + d) \div (2 * d)

(***************************************************************************)
(* Pixel geometry: exact rationals [n |-> numerator, d |-> denominator].   *)
(***************************************************************************)
\* width of the track (#container) in pixels
ContainerSize == 4
\* page coordinate of the track's left edge
ContainerLeft == 2
\* half of the knob's width in pixels
KnobHalf == 1

Rat(n, d) == IF d < 0 THEN [n |-> 0 - n, d |-> 0 - d] ELSE [n |-> n, d |-> d]

RInt(k) == [n |-> k, d |-> 1]

RAdd(a, b) == [n |-> a.n * b.d + b.n * a.d, d |-> a.d * b.d]

RSub(a, b) == [n |-> a.n * b.d - b.n * a.d, d |-> a.d * b.d]

RMulInt(a, k) == Rat(a.n * k, a.d)

RDivInt(a, k) == Rat(a.n, a.d * k)

RLe(a, b) == a.n * b.d <= b.n * a.d

RGe(a, b) == RLe(b, a)

\* Math.round of a rational
RRound(a) == RoundDiv(a.n, a.d)

(***************************************************************************)
(* The state of one slider element and of the document around it.          *)
(***************************************************************************)
VARIABLES
  min, max, step, ranges, rtl,  \* reactive properties
  value, valueIsArray,          \* the value property: <<n>> for a number n
  knobCount, decimalCount,      \* private fields
  knob,                         \* index of this.knob (its knob-N part), -1: unset
  focused,                      \* index of the knob element with DOM focus, -1: none
  changed,                      \* names in Lit's changedProperties: update pending
  props,                        \* the PropertyValues of the last updated() call
  aria, pos,                    \* per knob element: aria-value* and style position
  lastEvent,                    \* detail of the last value-changed event
  dragging, listeners,          \* dragging attribute; listeners on document
  hasTouched,                   \* Slider.hasTouched
  originalPointerXY, originalKnobOffsetXY,
  raf,                          \* pending requestAnimationFrame callbacks
  tooltips,                     \* tooltipsEnabled
  knobAttached,                 \* this.knob is one of the current knob elements
  hover,                        \* index of the knob element under the pointer, -1: none
  active, tooltipActive,        \* knob / tooltip elements with class 'active'
  timers,                       \* ids of the pending setTimeout callbacks
  tooltipActiveTimeout,         \* the id the slider has stored, 0: none
  title, counter,               \* the template element's reactive properties
  clicks                        \* clicks its button has received so far

\* the template element (vaadin-slider) that the page holds next to the slider
templateVars == <<title, counter, clicks>>

sliderVars ==
  <<min, max, step, ranges, rtl, value, valueIsArray, knobCount, decimalCount,
    knob, focused, changed, props, aria, pos, lastEvent, dragging, listeners,
    hasTouched, originalPointerXY, originalKnobOffsetXY, raf, tooltips,
    knobAttached, hover, active, tooltipActive, timers, tooltipActiveTimeout>>

vars == <<sliderVars, templateVars>>

\* the element as a record, for the handlers' sequential code
This ==
  [min |-> min, max |-> max, step |-> step, ranges |-> ranges, rtl |-> rtl,
   value |-> value, valueIsArray |-> valueIsArray, knobCount |-> knobCount,
   decimalCount |-> decimalCount, knob |-> knob, focused |-> focused,
   changed |-> changed, props |-> props, aria |-> aria, pos |-> pos,
   lastEvent |-> lastEvent, dragging |-> dragging, listeners |-> listeners,
   hasTouched |-> hasTouched, originalPointerXY |-> originalPointerXY,
   originalKnobOffsetXY |-> originalKnobOffsetXY, raf |-> raf,
   tooltips |-> tooltips, knobAttached |-> knobAttached, hover |-> hover,
   active |-> active, tooltipActive |-> tooltipActive, timers |-> timers,
   tooltipActiveTimeout |-> tooltipActiveTimeout]

Becomes(t) ==
  /\ min' = t.min /\ max' = t.max /\ step' = t.step /\ ranges' = t.ranges
  /\ rtl' = t.rtl /\ value' = t.value /\ valueIsArray' = t.valueIsArray
  /\ knobCount' = t.knobCount /\ decimalCount' = t.decimalCount
  /\ knob' = t.knob /\ focused' = t.focused /\ changed' = t.changed
  /\ props' = t.props /\ aria' = t.aria /\ pos' = t.pos
  /\ lastEvent' = t.lastEvent /\ dragging' = t.dragging
  /\ listeners' = t.listeners /\ hasTouched' = t.hasTouched
  /\ originalPointerXY' = t.originalPointerXY
  /\ originalKnobOffsetXY' = t.originalKnobOffsetXY /\ raf' = t.raf
  /\ tooltips' = t.tooltips /\ knobAttached' = t.knobAttached
  /\ hover' = t.hover /\ active' = t.active
  /\ tooltipActive' = t.tooltipActive /\ timers' = t.timers
  /\ tooltipActiveTimeout' = t.tooltipActiveTimeout
  /\ UNCHANGED templateVars

\* the reactive properties declared with @property
PropertyNames == {"tooltips", "rtl", "value", "ranges", "step", "min", "max"}

(***************************************************************************)
(* Getters.                                                                *)
(***************************************************************************)
\* get values(): an array value as it is, a number n as [n || 0]
values(t) == IF t.valueIsArray THEN t.value ELSE <<JsOr(t.value[1], 0)>>

\* get knobIndex(): the N of this.knob's knob-N part, 0 without a knob
knobIndex(t) == IF t.knob >= 0 THEN t.knob ELSE 0

\* get knobIndexes(): 0 .. knobs - 1
knobIndexes(t) == 0 .. (t.knobCount - 1)

\* set knobs(value)
setKnobs(t, v) == [t EXCEPT !.knobCount = IF v > 0 THEN v ELSE 1]

getDecimalCount(x) == 0

\* A property setter of Lit: the assignment, and requestUpdate(name, old)
\* when the new value differs from the old one.
setMin(t, v) ==
  [t EXCEPT !.min = v, !.changed = IF v # t.min THEN @ \cup {"min"} ELSE @]

setMax(t, v) ==
  [t EXCEPT !.max = v, !.changed = IF v # t.max THEN @ \cup {"max"} ELSE @]

setStep(t, v) ==
  [t EXCEPT !.step = v, !.changed = IF v # t.step THEN @ \cup {"step"} ELSE @]

setRanges(t, v) ==
  [t EXCEPT !.ranges = v, !.changed = IF v # t.ranges THEN @ \cup {"ranges"} ELSE @]

\* this.value = n for a number n
setValueNumber(t, n) ==
  [t EXCEPT !.value = <<n>>, !.valueIsArray = FALSE,
            !.changed = IF t.valueIsArray \/ t.value # <<n>>
                        THEN @ \cup {"value"} ELSE @]

\* this.value = a for an array a that is not the array value already holds
setValueNewArray(t, a) ==
  [t EXCEPT !.value = a, !.valueIsArray = TRUE, !.changed = @ \cup {"value"}]

(***************************************************************************)
(* Neighbour bounds and the initial value.                                 *)
(***************************************************************************)
getPrevNeighborValue(t, i) ==
  LET neighboringValue == At(values(t), i - 1)
      neighborPrecisionOffset == JsRem(neighboringValue, t.step)
      adjusted == IF Truthy(neighborPrecisionOffset)
                  THEN JsAdd(neighboringValue, JsSub(t.step, neighborPrecisionOffset))
                  ELSE neighboringValue
  IN  JsOr(adjusted, t.min)

getNextNeighborValue(t, i) ==
  LET neighboringValue == At(values(t), i + 1)
      neighborPrecisionOffset == JsRem(neighboringValue, t.step)
      adjusted == IF Truthy(neighborPrecisionOffset)
                  THEN JsSub(neighboringValue, neighborPrecisionOffset)
                  ELSE neighboringValue
  IN  JsOr(adjusted, t.max)

\* one entry of get initialValue()
initialValueAt(t, i) ==
  LET knobs == t.knobCount
      rounded == IF i = 0 THEN t.min
                 ELSE IF i < knobs - 1
                      THEN RoundDiv(i * (t.max - t.min), knobs - 1)
                      ELSE t.max
      init == JsSub(rounded, JsRem(rounded, t.step))
  IN  IF JsLt(init, t.min) THEN t.min ELSE IF JsGt(init, t.max) THEN t.max ELSE init

\* get initialValue(); the element has no value attribute
initialValue(t) == [k \in 1 .. t.knobCount |-> initialValueAt(t, k - 1)]

(***************************************************************************)
(* Rendering: setKnobElements, setValue and what it calls.                 *)
(***************************************************************************)
NoAria == [now |-> NaN, min |-> NaN, max |-> NaN]

NoPos == [set |-> FALSE, right |-> FALSE, p |-> RInt(0)]

NoEvent == [fired |-> FALSE, index |-> 0, value |-> NaN, values |-> <<>>]

\* setKnobElements(): knobs fresh knob elements replace the old ones, so
\* the knob that had focus is gone
setKnobElements(t) ==
  [t EXCEPT !.aria = [k \in 1 .. t.knobCount |-> NoAria],
            !.pos = [k \in 1 .. t.knobCount |-> NoPos],
            !.focused = -1, !.knobAttached = FALSE, !.hover = -1,
            !.active = {}, !.tooltipActive = {}]

\* setAriaValues(i, values) on an existing knob element
ariaValues(t, i, vals) ==
  [now |-> At(vals, i),
   min |-> IF t.knobCount = 1 THEN t.min ELSE getPrevNeighborValue(t, i),
   max |-> IF t.knobCount = 1 THEN t.max ELSE getNextNeighborValue(t, i)]

\* setKnobPostion(i, values): the style position, left or (rtl) right; a
\* position that is not a finite number leaves the style unset
knobPosition(t, i, vals) ==
  IF isNaN(At(vals, i)) \/ t.max = t.min THEN NoPos
  ELSE [set |-> TRUE, right |-> t.rtl,
        p |-> RSub(Rat((At(vals, i) - t.min) * ContainerSize, t.max - t.min),
                   RInt(KnobHalf))]

\* get valueChangedEvent()
valueChangedEvent(t) ==
  [fired |-> TRUE, index |-> knobIndex(t), value |-> At(values(t), knobIndex(t)),
   values |-> values(t)]

\* setValue(values): every knob index with a knob element is rendered, then
\* the value-changed event is dispatched
setValue(t, vals) ==
  [t EXCEPT
     !.aria = [k \in DOMAIN t.aria |->
                 IF k - 1 \in knobIndexes(t) THEN ariaValues(t, k - 1, vals) ELSE @[k]],
     !.pos = [k \in DOMAIN t.pos |->
                IF k - 1 \in knobIndexes(t) THEN knobPosition(t, k - 1, vals) ELSE @[k]],
     !.lastEvent = valueChangedEvent(t)]

(***************************************************************************)
(* Activation: the 'active' class of knobs and tooltips and its timer.     *)
(***************************************************************************)
MaxTimers == 2

\* ids window.setTimeout can hand out
TimerIds == 1 .. MaxTimers

\* get tooltip(): the current tooltip element of index knobIndex, if
\* tooltips are enabled and there is one
tooltip(t) ==
  IF t.tooltips /\ knobIndex(t) + 1 \in DOMAIN t.aria THEN {knobIndex(t)} ELSE {}

\* this.knob.matches(':hover')
knobHovered(t) == t.knobAttached /\ t.hover = t.knob

\* the timer started without cancelling the pending one
restartTimeoutNoClear(t) ==
  LET free == TimerIds \ t.timers
      id == CHOOSE x \in free : \A y \in free : x <= y
  IN  IF free = {} THEN t
      ELSE [t EXCEPT !.timers = @ \cup {id}, !.tooltipActiveTimeout = id]

\* clearTimeout(this.tooltipActiveTimeout); this.tooltipActiveTimeout =
\* window.setTimeout(() => this.setActive(false), 1000)
restartTimeout(t) ==
  LET pending == t.timers \ {t.tooltipActiveTimeout}
      free == TimerIds \ pending
      id == CHOOSE x \in free : \A y \in free : x <= y
  IN  IF free = {} THEN [t EXCEPT !.timers = pending]
      ELSE [t EXCEPT !.timers = pending \cup {id}, !.tooltipActiveTimeout = id]

\* setActive(active, timeout): every current knob element loses the class
\* first; a detached this.knob takes and loses it unseen
setActive(t, act, timeout) ==
  LET cleared == [t EXCEPT !.active = {}]
  IN  IF t.knob < 0 THEN cleared
      ELSE IF act
           THEN LET a == [cleared EXCEPT
                            !.active = IF t.knobAttached THEN {t.knob} ELSE {},
                            !.tooltipActive = @ \cup tooltip(t)]
                IN  IF timeout THEN restartTimeout(a) ELSE a
           ELSE IF ~(knobHovered(t) \/ t.dragging)
                THEN [cleared EXCEPT !.tooltipActive = @ \ tooltip(t)]
                ELSE cleared

\* knob.focus() on knob element i: nothing if it has focus already; else
\* the knob that had focus gets blur (setActive(false)) and knob i gets
\* focus (this.knob = knob; setActive(true, true))
focusKnob(t, i) ==
  IF t.focused = i THEN t
  ELSE LET blurred == IF t.focused >= 0 THEN setActive(t, FALSE, FALSE) ELSE t
       IN  setActive([blurred EXCEPT !.focused = i, !.knob = i, !.knobAttached = TRUE],
                     TRUE, TRUE)

(***************************************************************************)
(* sort and isSorted.                                                      *)
(***************************************************************************)
isSorted(vals) ==
  \A k \in DOMAIN vals :
    ~Truthy(At(vals, k - 2)) \/ JsGe(vals[k], At(vals, k - 2))

Ascending(a) == \A k \in 1 .. (Len(a) - 1) : a[k] <= a[k + 1]

\* The arrays values.sort((a, b) => a - b) can leave: the ascending order,
\* or, with a NaN in the array (an inconsistent comparator), any order.
sortOutcomes(vals) ==
  LET perms == {[k \in DOMAIN vals |-> vals[f[k]]] : f \in Permutations(DOMAIN vals)}
  IN  IF \E k \in DOMAIN vals : isNaN(vals[k]) THEN perms
      ELSE {a \in perms : Ascending(a)}

\* sort(): this.value = this.values.sort(...).  An array value is sorted in
\* place and assigned to itself (no change for Lit); a number is replaced
\* by a new array.
sort(t, sorted) ==
  IF t.valueIsArray THEN [t EXCEPT !.value = sorted]
  ELSE setValueNewArray(t, sorted)

(***************************************************************************)
(* updated(props): the body of Lit's update cycle.                         *)
(***************************************************************************)
\* if (props.has('step'))
updatedStep(t, p) ==
  IF "step" \in p
  THEN [setStep(t, IF t.step < 0 THEN 1 ELSE t.step)
          EXCEPT !.decimalCount = getDecimalCount(t.step)]
  ELSE t

\* if (props.has('tooltips') || props.has('tooltipsAlwaysVisible'))
updatedTooltips(t, p) ==
  IF "tooltips" \in p
  THEN LET e == setKnobElements(t) IN setValue(e, values(e))
  ELSE t

\* the ranges branch with the knob count left at the number of ranges
updatedRangesNoDouble(t, p, r) ==
  IF "ranges" \in p
  THEN IF r >= 0 THEN setKnobs(t, JsOr(r, 1)) ELSE setRanges(t, 0)
  ELSE t

\* the ranges branch without its else: an invalid ranges is left as it is
updatedRangesNoReset(t, p, r) ==
  IF "ranges" \in p
  THEN IF r >= 0 THEN setKnobs(t, JsOr(2 * r, 1)) ELSE t
  ELSE t

\* if (props.has('ranges')); r is the ranges read when updated() began
updatedRanges(t, p, r) ==
  IF "ranges" \in p
  THEN IF r >= 0 THEN setKnobs(t, JsOr(2 * r, 1)) ELSE setRanges(t, 0)
  ELSE t

\* the recompute branch taken on a change of ranges only
updatedRecomputeRangesOnly(t, p) ==
  IF "ranges" \in p
  THEN LET e == setKnobElements(t)
           old == values(e)
           newValue == [k \in 1 .. e.knobCount |->
                          IF k \in DOMAIN old THEN old[k] ELSE initialValue(e)[k]]
           a == setValueNewArray(e, newValue)
       IN  setValue(a, newValue)
  ELSE t

\* if (props.has('ranges') || props.has('min') || props.has('max'))
updatedRecompute(t, p) ==
  IF p \cap {"ranges", "min", "max"} # {}
  THEN LET e == setKnobElements(t)
           old == values(e)
           newValue == [k \in 1 .. e.knobCount |->
                          IF k \in DOMAIN old THEN old[k] ELSE initialValue(e)[k]]
           a == setValueNewArray(e, newValue)
       IN  setValue(a, newValue)
  ELSE t

\* updated() up to the sortedness check
updatedBeforeSort(t, p) ==
  updatedRecompute(updatedRanges(updatedTooltips(updatedStep(t, p), p), p, t.ranges), p)

\* if (props.has('value') || props.has('vertical') || props.has('rtl'))
updatedValue(t, p, sorted) ==
  IF p \cap {"value", "rtl"} # {}
  THEN IF ~isSorted(values(t)) THEN sort(t, sorted) ELSE setValue(t, values(t))
  ELSE t

\* performUpdate(): changedProperties is handed to updated() and emptied
\* first, so assignments made in updated() start the next cycle
PerformUpdate ==
  /\ changed # {}
  /\ LET p == changed
         t == updatedBeforeSort([This EXCEPT !.changed = {}, !.props = p], p)
     IN  \E sorted \in sortOutcomes(values(t)) : Becomes(updatedValue(t, p, sorted))

\* no update is pending: Lit's update is a microtask, it runs before the
\* next event is delivered
Quiescent == changed = {}

(***************************************************************************)
(* The keyboard stepper.                                                   *)
(***************************************************************************)
\* this.values[i] = v: lost when value is a number (values is a temporary)
assignValuesAt(t, i, v) ==
  IF t.valueIsArray
  THEN [t EXCEPT !.value = [k \in 1 .. (IF i + 1 > Len(@) THEN i + 1 ELSE Len(@)) |->
                              IF k = i + 1 THEN v ELSE At(@, k - 1)]]
  ELSE t

\* this.requestUpdate('value', [...this.values]): the copy never equals value
requestUpdateValue(t) == [t EXCEPT !.changed = @ \cup {"value"}]

decreaseKnobValue(t, i, single, first, other) ==
  IF t.knobCount = 1 THEN setValueNumber(t, single)
  ELSE requestUpdateValue(assignValuesAt(t, i, IF i = 0 THEN first ELSE other))

increaseKnobValue(t, i, single, last, other) ==
  IF t.knobCount = 1 THEN setValueNumber(t, single)
  ELSE requestUpdateValue(
         assignValuesAt(t, i, IF i = t.knobCount - 1 THEN last ELSE other))

decreaseKnobValueByStep(t, i) ==
  decreaseKnobValue(t, i,
    MathMax({t.min, JsSub(At(values(t), 0), t.step)}),
    MathMax({t.min, JsSub(At(values(t), 0), t.step)}),
    MathMax({t.min, JsSub(At(values(t), i), t.step), getPrevNeighborValue(t, i)}))

decreaseKnobValueToLowest(t, i) ==
  decreaseKnobValue(t, i, t.min, t.min,
    MathMax({t.min, getPrevNeighborValue(t, i)}))

increaseKnobValueByStep(t, i) ==
  increaseKnobValue(t, i,
    MathMin({t.max, JsAdd(At(values(t), 0), t.step)}),
    MathMin({t.max, JsAdd(At(values(t), i), t.step)}),
    MathMin({t.max, JsAdd(At(values(t), i), t.step), getNextNeighborValue(t, i)}))

increaseKnobValueToHighest(t, i) ==
  increaseKnobValue(t, i, t.max, t.max,
    MathMin({t.max, getNextNeighborValue(t, i)}))

Keys == {"ArrowLeft", "ArrowDown", "ArrowRight", "ArrowUp", "Home", "End"}

\* keyMove with the horizontal arrows exchanged in a right-to-left slider
keyMoveRtl(t, key, i) ==
  setActive(
    CASE key \in {"ArrowLeft", "ArrowDown"} ->
           IF t.rtl THEN increaseKnobValueByStep(t, i) ELSE decreaseKnobValueByStep(t, i)
      [] key \in {"ArrowRight", "ArrowUp"} ->
           IF t.rtl THEN decreaseKnobValueByStep(t, i) ELSE increaseKnobValueByStep(t, i)
      [] key = "Home" -> decreaseKnobValueToLowest(t, i)
      [] key = "End" -> increaseKnobValueToHighest(t, i)
      [] OTHER -> t,
    TRUE, TRUE)

keyMove(t, key, i) ==
  setActive(
    CASE key \in {"ArrowLeft", "ArrowDown"} -> decreaseKnobValueByStep(t, i)
      [] key \in {"ArrowRight", "ArrowUp"} -> increaseKnobValueByStep(t, i)
      [] key = "Home" -> decreaseKnobValueToLowest(t, i)
      [] key = "End" -> increaseKnobValueToHighest(t, i)
      [] OTHER -> t,
    TRUE, TRUE)

\* handleEvent, case 'focus', on knob element i (after case 'blur' on the
\* knob that had focus)
Focus(i) ==
  /\ Quiescent
  /\ i + 1 \in DOMAIN aria
  /\ focused # i
  /\ Becomes(focusKnob(This, i))

\* handleEvent, case 'blur': focus leaves the slider
Blur ==
  /\ Quiescent
  /\ focused >= 0
  /\ Becomes(setActive([This EXCEPT !.focused = -1], FALSE, FALSE))

\* handleEvent, case 'mouseleave', on the knob element under the pointer
mouseLeave(t) == setActive([t EXCEPT !.hover = -1], FALSE, FALSE)

\* handleEvent, case 'mouseenter', on knob element i (after case
\* 'mouseleave' on the knob the pointer was over)
MouseEnter(i) ==
  /\ Quiescent
  /\ i + 1 \in DOMAIN aria
  /\ hover # i
  /\ LET left == IF hover >= 0 THEN mouseLeave(This) ELSE This
     IN  Becomes(setActive([left EXCEPT !.knob = i, !.knobAttached = TRUE, !.hover = i],
                           TRUE, FALSE))

\* the pointer leaves the knob it was over
MouseLeave ==
  /\ Quiescent
  /\ hover >= 0
  /\ Becomes(mouseLeave(This))

\* a pending timeout runs its callback, () => this.setActive(false)
TimerFires(id) ==
  /\ Quiescent
  /\ id \in timers
  /\ Becomes(setActive([This EXCEPT !.timers = @ \ {id}], FALSE, FALSE))

\* handleEvent, case 'keydown': the event goes to the knob with focus, the
\* handler moves the knob this.knob names
KeyDown(key) ==
  /\ Quiescent
  /\ focused >= 0
  /\ Becomes(keyMove(This, key, knobIndex(This)))

(***************************************************************************)
(* Construction.                                                           *)
(***************************************************************************)
Mins == (0 - MaxMin) .. MaxMin

Lengths == 0 .. MaxLength

Steps == 1 .. MaxStep

RangesValues == 0 .. MaxRanges

\* every list of n in-range values, sorted or not
ValueLists(mn, mx, n) == [1 .. n -> mn .. mx]

\* field initialisers of the template element
DefaultTitle == "Hey there"

DefaultCounter == 5

TemplateConstructed ==
  /\ title = DefaultTitle /\ counter = DefaultCounter /\ clicks = 0

\* A new element whose properties the page has set: min, max, step, ranges,
\* rtl and value (the default value is the number 0).  Every property is in
\* changedProperties: the first update is pending.  The page's template
\* element is new as well.
ConstructedWith(mn, mx, st, rg, rt, val, isArray, tt) ==
  /\ TemplateConstructed
  /\ tooltips = tt /\ knobAttached = FALSE /\ hover = -1
  /\ active = {} /\ tooltipActive = {}
  /\ timers = {} /\ tooltipActiveTimeout = 0
  /\ min = mn /\ max = mx /\ step = st /\ ranges = rg /\ rtl = rt
  /\ value = val /\ valueIsArray = isArray
  /\ knobCount = 1 /\ decimalCount = 0
  /\ knob = -1 /\ focused = -1
  /\ changed = PropertyNames /\ props = {}
  /\ aria = <<>> /\ pos = <<>>
  /\ lastEvent = NoEvent
  /\ dragging = FALSE /\ listeners = {} /\ hasTouched = FALSE
  /\ originalPointerXY = RInt(0) /\ originalKnobOffsetXY = RInt(0)
  /\ raf = <<>>

\* the same element with tooltips left at its default, false
Constructed(mn, mx, st, rg, rt, val, isArray) ==
  ConstructedWith(mn, mx, st, rg, rt, val, isArray, FALSE)

(***************************************************************************)
(* The keyboard specifications: a configured slider driven by focus and    *)
(* key events, from the default value (SpecKeys) or from a value list the  *)
(* page assigned (SpecKeysFrom).                                           *)
(***************************************************************************)
InitKeys ==
  \E mn \in Mins, len \in Lengths, st \in Steps, rg \in RangesValues :
    Constructed(mn, mn + len, st, rg, FALSE, <<0>>, FALSE)

InitKeysFrom ==
  \E mn \in Mins, len \in Lengths, st \in Steps, rg \in RangesValues :
    \E val \in ValueLists(mn, mn + len, IF rg = 0 THEN 1 ELSE 2 * rg) :
      Constructed(mn, mn + len, st, rg, FALSE, val, TRUE)

NextKeys ==
  \/ PerformUpdate
  \/ \E i \in 0 .. (2 * MaxRanges - 1) : Focus(i)
  \/ \E key \in Keys : KeyDown(key)

SpecKeys == InitKeys /\ [][NextKeys]_vars

SpecKeysFrom == InitKeysFrom /\ [][NextKeys]_vars

(***************************************************************************)
(* The pointer-to-value mapper: startDrag, drag and its animation-frame    *)
(* callback, and the end of a drag.                                        *)
(***************************************************************************)
\* pageX of a mouse move: on the track, left of it (0 is the page's edge)
\* and right of it
PagePositions == 0 .. (ContainerLeft + ContainerSize + 1)

\* getBounds(knob)[xy] - containerBounds[xy]: the left edge of a knob element
\* relative to the track, from its style position
knobOffset(t, i) ==
  LET q == t.pos[i + 1]
  IN  IF q.right THEN RSub(RInt(ContainerSize - 2 * KnobHalf), q.p) ELSE q.p

\* every knob element has a position: drag reads them with getBounds
Positioned(t) == \A k \in DOMAIN t.pos : t.pos[k].set

\* pageX of the centre of knob element i, where the pointer is pressed
knobCentre(t, i) == RAdd(knobOffset(t, i), RInt(ContainerLeft + KnobHalf))

\* set dragging(state)
setDragging(t, state) ==
  LET types == {IF t.hasTouched THEN "touchmove" ELSE "mousemove",
                IF t.hasTouched THEN "touchend" ELSE "mouseup"}
  IN  [t EXCEPT !.listeners = IF state THEN @ \cup types ELSE @ \ types,
                !.dragging = state]

\* startDrag(e)
startDrag(t, i, pageXY) ==
  setActive([t EXCEPT !.knob = i, !.knobAttached = TRUE, !.originalPointerXY = pageXY,
                      !.originalKnobOffsetXY = knobOffset(t, i)],
            TRUE, FALSE)

\* isValid accepting every event
isValidAlways(t, touch) ==
  [valid |-> TRUE, this |-> [t EXCEPT !.hasTouched = IF @ THEN @ ELSE touch]]

\* Slider.isValid(e), touch: isTouch(e).  A mouse event is rejected once a
\* touch was seen; the first accepted event sets Slider.hasTouched.
isValid(t, touch) ==
  IF t.hasTouched /\ ~touch THEN [valid |-> FALSE, this |-> t]
  ELSE [valid |-> TRUE,
        this |-> [t EXCEPT !.hasTouched = IF @ THEN @ ELSE touch]]

\* handleEvent, cases 'mousedown' and 'touchstart', on knob element i with
\* the pointer at pageXY: knob.focus() delivers 'focus' to the knob
pointerDown(t, i, touch, pageXY) ==
  LET v == isValid(t, touch)
  IN  IF ~v.valid THEN t
      ELSE setDragging(startDrag(focusKnob(v.this, i), i, pageXY), TRUE)

\* a mousedown with the primary button on knob element i
MouseDown(i) ==
  /\ Quiescent
  /\ i + 1 \in DOMAIN pos
  /\ Positioned(This)
  /\ Becomes(pointerDown(This, i, FALSE, knobCentre(This, i)))

\* a touchstart on knob element i
TouchStart(i) ==
  /\ Quiescent
  /\ i + 1 \in DOMAIN pos
  /\ Positioned(This)
  /\ Becomes(pointerDown(This, i, TRUE, knobCentre(This, i)))

\* drag(e), the synchronous part: the knob limits, read from the neighbours'
\* elements, and the values the animation-frame callback closes over
dragFrame(t, pageXY) ==
  LET i == knobIndex(t)
      knobs == t.knobCount
      lineStart == RInt(0 - KnobHalf)
      lineEnd == RInt(ContainerSize - KnobHalf)
      start0 == IF t.rtl THEN lineEnd ELSE lineStart
      end0 == IF t.rtl THEN lineStart ELSE lineEnd
      start == IF i = 0 THEN start0 ELSE knobOffset(t, i - 1)
      end == IF i = 0
             THEN IF knobs > 1 THEN knobOffset(t, 1) ELSE end0
             ELSE IF i = knobs - 1 THEN end0 ELSE knobOffset(t, i + 1)
  IN  [i |-> i, rtl |-> t.rtl, start |-> start, end |-> end, pageXY |-> pageXY,
       originalKnobOffsetXY |-> t.originalKnobOffsetXY,
       originalPointerXY |-> t.originalPointerXY]

\* the "Step" block of the callback: value is relative to min, min is not
steppedValue(v, length, mn, st) ==
  IF v >= length THEN length
  ELSE IF ~(v = mn \/ (v > mn /\ JsRem(Abs(v), st) = 0))
       THEN IF st = 0 THEN NaN ELSE RoundDiv(v, st) * st
       ELSE v

\* the value the callback computes for frame f
dragValue(t, f) ==
  LET moved == RAdd(f.originalKnobOffsetXY, RSub(RInt(f.pageXY), f.originalPointerXY))
      startLimit == IF f.rtl THEN RGe(moved, f.start) ELSE RLe(moved, f.start)
      endLimit == IF f.rtl THEN RLe(moved, f.end) ELSE RGe(moved, f.end)
      newKnobPositionXY == IF startLimit THEN f.start ELSE IF endLimit THEN f.end ELSE moved
      length == t.max - t.min
      pct == RDivInt(RAdd(newKnobPositionXY, RInt(KnobHalf)), ContainerSize)
      ltr == RMulInt(pct, length)
      v == RRound(IF f.rtl THEN RSub(RInt(length), ltr) ELSE ltr)
  IN  JsAdd(steppedValue(v, length, t.min, t.step), t.min)

\* the requestAnimationFrame callback of drag
dragCallback(t, f) ==
  LET v == dragValue(t, f)
      vals == values(t)
      copy == [k \in 1 .. (IF f.i + 1 > Len(vals) THEN f.i + 1 ELSE Len(vals)) |->
                 IF k = f.i + 1 THEN v ELSE At(vals, k - 1)]
  IN  IF f.pageXY # 0 /\ f.originalPointerXY.n # 0 /\ (isNaN(v) \/ At(vals, f.i) # v)
      THEN IF t.knobCount = 1 THEN setValueNumber(t, v) ELSE setValueNewArray(t, copy)
      ELSE t

\* handleEvent, case 'mousemove', delivered by the document listener
MouseMove(pageXY) ==
  /\ Quiescent
  /\ "mousemove" \in listeners
  /\ knobIndex(This) + 1 \in DOMAIN pos
  /\ Positioned(This)
  /\ Len(raf) < MaxRaf
  /\ Becomes([This EXCEPT !.raf = Append(@, dragFrame(This, pageXY))])

\* the browser runs the oldest pending animation-frame callback
AnimationFrame ==
  /\ Quiescent
  /\ raf # <<>>
  /\ Becomes(dragCallback([This EXCEPT !.raf = Tail(@)], Head(raf)))

\* handleEvent, case 'mouseup', delivered by the document listener
MouseUp ==
  /\ Quiescent
  /\ "mouseup" \in listeners
  /\ Becomes(setActive(setDragging(This, FALSE), FALSE, FALSE))

\* handleEvent, case 'touchmove', delivered by the document listener
TouchMove(pageXY) ==
  /\ Quiescent
  /\ "touchmove" \in listeners
  /\ knobIndex(This) + 1 \in DOMAIN pos
  /\ Positioned(This)
  /\ Len(raf) < MaxRaf
  /\ Becomes([This EXCEPT !.raf = Append(@, dragFrame(This, pageXY))])

\* handleEvent, case 'touchend', delivered by the document listener
TouchEnd ==
  /\ Quiescent
  /\ "touchend" \in listeners
  /\ Becomes(setActive(setDragging(This, FALSE), FALSE, FALSE))

(***************************************************************************)
(* The drag specification: a configured slider with min < max driven by    *)
(* mouse drags.                                                            *)
(***************************************************************************)
InitDrag ==
  \E mn \in Mins, len \in Lengths \ {0}, st \in Steps, rg \in 0 .. MaxRangesSmall,
     rt \in BOOLEAN :
    Constructed(mn, mn + len, st, rg, rt, <<0>>, FALSE)

NextDrag ==
  \/ PerformUpdate
  \/ \E i \in 0 .. (2 * MaxRangesSmall - 1) : MouseDown(i)
  \/ \E pageXY \in PagePositions : MouseMove(pageXY)
  \/ AnimationFrame
  \/ MouseUp

SpecDrag == InitDrag /\ [][NextDrag]_vars

(***************************************************************************)
(* The pointer specification: a single-knob slider with the default step   *)
(* driven by mouse and touch interactions in any interleaving.             *)
(***************************************************************************)
InitPointer == Constructed(0, MaxLength, 1, 0, FALSE, <<0>>, FALSE)

NextPointer ==
  \/ PerformUpdate
  \/ MouseDown(0)
  \/ TouchStart(0)
  \/ \E pageXY \in PagePositions : MouseMove(pageXY)
  \/ \E pageXY \in PagePositions : TouchMove(pageXY)
  \/ AnimationFrame
  \/ MouseUp
  \/ TouchEnd

SpecPointer == InitPointer /\ [][NextPointer]_vars

(***************************************************************************)
(* Property assignments by the page.  Lit batches the assignments made     *)
(* before the update microtask runs.                                       *)
(***************************************************************************)
CanAssign == Cardinality(changed) < MaxBatch

\* slider.min = v, slider.max = v, keeping min <= max <= min + MaxLength
SetMin(v) ==
  /\ CanAssign
  /\ v <= max /\ max - v <= MaxLength
  /\ Becomes(setMin(This, v))

SetMax(v) ==
  /\ CanAssign
  /\ min <= v /\ v - min <= MaxLength
  /\ Becomes(setMax(This, v))

\* slider.step = v, also 0 and a negative number
SetStep(v) ==
  /\ CanAssign
  /\ Becomes(setStep(This, v))

\* slider.ranges = v, also a negative number and NaN (what the ranges
\* attribute converts a non-number to)
SetRanges(v) ==
  /\ CanAssign
  /\ Becomes(setRanges(This, v))

\* slider.value = a for a new array a of knobCount numbers in [min, max],
\* in any order
SetValue(a) ==
  /\ CanAssign
  /\ a \in ValueLists(min, max, knobCount)
  /\ Becomes(setValueNewArray(This, a))

(***************************************************************************)
(* The property specification: an element with the default step, ranges    *)
(* and value whose min, max, step and ranges the page reassigns.           *)
(***************************************************************************)
InitProps == Constructed(0, MaxLength, 1, 0, FALSE, <<0>>, FALSE)

NextProps ==
  \/ PerformUpdate
  \/ \E v \in Mins : SetMin(v)
  \/ \E v \in (0 - MaxMin) .. (MaxMin + MaxLength) : SetMax(v)
  \/ \E v \in -1 .. MaxStep : SetStep(v)
  \/ \E v \in {NaN} \cup (-1 .. MaxRangesSmall) : SetRanges(v)

SpecProps == InitProps /\ [][NextProps]_vars

(***************************************************************************)
(* The reconfiguration specification: the same element, whose min, max,    *)
(* step and ranges the page reassigns with valid values only (min <= max,  *)
(* step >= 1, ranges >= 0).                                                *)
(***************************************************************************)
NextConfig ==
  \/ PerformUpdate
  \/ \E v \in 0 .. MaxShift : SetMin(v)
  \/ \E v \in (MaxLength - MaxShift) .. MaxLength : SetMax(v)
  \/ \E v \in 1 .. MaxStepSmall : SetStep(v)
  \/ \E v \in 0 .. MaxRangesSmall : SetRanges(v)

SpecConfig == InitProps /\ [][NextConfig]_vars

(***************************************************************************)
(* The ranges specification: a configured slider whose ranges the page     *)
(* reassigns, with valid and invalid values.                               *)
(***************************************************************************)
InitRanges ==
  \E mn \in Mins, len \in Lengths, st \in Steps, rg \in 0 .. MaxRangesSmall :
    Constructed(mn, mn + len, st, rg, FALSE, <<0>>, FALSE)

NextRanges ==
  \/ PerformUpdate
  \/ \E v \in {NaN} \cup (-1 .. MaxRangesSmall) : SetRanges(v)

SpecRanges == InitRanges /\ [][NextRanges]_vars

(***************************************************************************)
(* The initial-value specification: sliders of every min, max, step and    *)
(* ranges in the bounds, whose ranges the page reassigns; initialValue is   *)
(* read in every state.                                                    *)
(***************************************************************************)
MaxInitialMin == 2

InitInitial ==
  \E mn \in (0 - MaxInitialMin) .. MaxInitialMin, len \in Lengths,
     st \in Steps, rg \in RangesValues :
    Constructed(mn, mn + len, st, rg, FALSE, <<0>>, FALSE)

NextInitial ==
  \/ PerformUpdate
  \/ \E v \in RangesValues : SetRanges(v)

SpecInitial == InitInitial /\ [][NextInitial]_vars

(***************************************************************************)
(* The value specification: a configured slider driven by focus, pointer   *)
(* and key events and by assignments of value.                             *)
(***************************************************************************)
InitValue ==
  \E mn \in Mins, len \in Lengths, st \in Steps, rg \in 0 .. MaxRangesSmall :
    Constructed(mn, mn + len, st, rg, FALSE, <<0>>, FALSE)

NextValue ==
  \/ PerformUpdate
  \/ \E i \in 0 .. (2 * MaxRangesSmall - 1) : Focus(i)
  \/ \E i \in 0 .. (2 * MaxRangesSmall - 1) : MouseEnter(i)
  \/ \E key \in Keys : KeyDown(key)
  \/ \E a \in ValueLists(min, max, knobCount) : SetValue(a)

SpecValue == InitValue /\ [][NextValue]_vars

(***************************************************************************)
(* A single-knob slider, left-to-right or right-to-left, whose value the   *)
(* page has set to a number in [min, max], driven by key events.           *)
(***************************************************************************)
InitSingle ==
  \E mn \in Mins, len \in Lengths, st \in Steps, rt \in BOOLEAN :
    \E v \in mn .. (mn + len) :
      Constructed(mn, mn + len, st, 0, rt, <<v>>, FALSE)

NextSingle == PerformUpdate \/ Focus(0) \/ \E key \in Keys : KeyDown(key)

SpecSingle == InitSingle /\ [][NextSingle]_vars

(***************************************************************************)
(* The activation specification: a single-knob slider, with or without     *)
(* tooltips, that receives focus, blur, hover, key and mouse events while   *)
(* its deactivation timer runs.                                            *)
(***************************************************************************)
InitActive ==
  \E tt \in BOOLEAN : ConstructedWith(0, MaxLength, 1, 0, FALSE, <<0>>, FALSE, tt)

NextActive ==
  \/ PerformUpdate
  \/ Focus(0)
  \/ Blur
  \/ MouseEnter(0)
  \/ MouseLeave
  \/ \E key \in Keys : KeyDown(key)
  \/ MouseDown(0)
  \/ MouseUp
  \/ \E id \in TimerIds : TimerFires(id)

SpecActive == InitActive /\ [][NextActive]_vars

(***************************************************************************)
(* The template element: a title, a counter and a button whose click       *)
(* handler is increment().                                                 *)
(***************************************************************************)
MaxClicks == 60

\* titles the page gives the element: the default and the attribute's
Titles == {DefaultTitle, "attribute title"}

incrementTwice(c) == c + 2

\* increment(): this.counter += 1
increment(c) == c + 1

\* a click on the button
Click ==
  /\ clicks < MaxClicks
  /\ counter' = increment(counter)
  /\ clicks' = clicks + 1
  /\ UNCHANGED <<title, sliderVars>>

\* the page sets the title attribute
SetTitle(s) ==
  /\ title' = s
  /\ UNCHANGED <<counter, clicks, sliderVars>>

InitTemplate == Constructed(0, MaxLength, 1, 0, FALSE, <<0>>, FALSE)

NextTemplate == Click \/ \E s \in Titles : SetTitle(s)

SpecTemplate == InitTemplate /\ [][NextTemplate]_vars

(***************************************************************************)
(* Claims about the keyboard stepper.                                      *)
(***************************************************************************)
InRange(vals) == \A k \in DOMAIN vals : JsGe(vals[k], min) /\ JsGe(max, vals[k])

\* the value list the first update cycle of SpecKeys leaves: the default
\* value 0 for knob 0, the initial value for the knobs after it
InitialList == [k \in 1 .. knobCount |-> IF k = 1 THEN 0 ELSE initialValueAt(This, k - 1)]

\* C1: in a multi-knob slider started from its initial values and driven by
\* ArrowLeft/ArrowDown/ArrowRight/ArrowUp/Home/End key events, the value
\* list is sorted ascending whenever the update cycles have completed.
\* Stated for the sliders whose initial list is sorted, so that only key
\* events can break it (checked under SpecKeys).
C1_SortedAfterKeys ==
  (Quiescent /\ knobCount > 1 /\ Ascending(InitialList)) =>
    \A k \in 1 .. (Len(value) - 1) : JsGe(value[k + 1], value[k])

\* C2: started from values that all lie in [min, max] and driven by key
\* events, every knob value satisfies min <= value[i] <= max whenever the
\* update cycles have completed (checked under SpecKeysFrom).
C2_InRangeAfterKeys == Quiescent => InRange(values(This))

(***************************************************************************)
(* Claims about the pointer-to-value mapper (checked under SpecDrag).      *)
(***************************************************************************)
\* this step is an animation-frame callback of drag that stores a value
DragStores == raf # <<>> /\ raf' = Tail(raf) /\ changed' # {}

\* the knob the callback moves, and the value it stored
DraggedKnob == Head(raf).i

StoredValue == At(value', DraggedKnob)

\* C3: the value a drag move stores for knob i of a multi-knob slider lies
\* between the values of its neighbours, value[i-1] <= value[i] <= value[i+1].
C3_DragClampedToNeighbours ==
  [][(DragStores /\ knobCount > 1) =>
       /\ DraggedKnob > 0 => JsGe(StoredValue, At(value', DraggedKnob - 1))
       /\ DraggedKnob < knobCount - 1 => JsGe(At(value', DraggedKnob + 1), StoredValue)]_vars

\* C4: every value a drag move stores lies in [min, max].
C4_DragInRange ==
  [][DragStores => (JsGe(StoredValue, min) /\ JsGe(max, StoredValue))]_vars

\* C5: every value a drag move stores is a stepped value: value - min is a
\* multiple of step, or the value is max.
C5_DragStepped ==
  [][DragStores => (StoredValue = max \/ JsRem(JsSub(StoredValue, min), step) = 0)]_vars

(***************************************************************************)
(* Claims about the value-changed event (checked under SpecValue).         *)
(***************************************************************************)
\* C6: once the update cycles that follow a change of value (by a key
\* event or an assignment) have completed, a value-changed
\* event has been dispatched whose detail.values are the slider's current
\* values and whose detail.value is values[detail.index].
C6_EventCarriesCurrentValues ==
  Quiescent =>
    /\ lastEvent.fired
    /\ lastEvent.values = values(This)
    /\ lastEvent.value = At(values(This), lastEvent.index)

(***************************************************************************)
(* Claims about the property lifecycle (C7 and C10 checked under           *)
(* SpecProps, C8 and C9 under SpecConfig).                                 *)
(***************************************************************************)
\* C7: when the update cycles that follow a change of min or max have
\* completed, every knob value lies within the new range,
\* min <= value[i] <= max.  The slider starts with its value in range and
\* only min, max, step and ranges are reassigned.
C7_InRangeAfterMinMaxChange ==
  Quiescent => \A k \in DOMAIN value : min <= value[k] /\ value[k] <= max

\* C8: when the update cycles that follow an assignment of ranges >= 0 have
\* completed, the knob count is max(1, 2 * ranges).
C8_KnobCount ==
  (Quiescent /\ ranges >= 0) =>
    knobCount = (IF 2 * ranges > 1 THEN 2 * ranges ELSE 1)

\* C8 witness: ranges was assigned MaxRangesSmall (the element is constructed
\* with ranges = 0) and the update cycles have completed.
C8_Witness == Quiescent /\ ranges = MaxRangesSmall /\ knobCount = 2 * MaxRangesSmall

\* the last update cycle recomputed the value array: value was assigned a
\* new array of knobCount entries, which schedules the next cycle
Recomputed == "value" \in changed /\ valueIsArray /\ Len(value) = knobCount

\* C9 as claimed: an update cycle whose changed properties include min,
\* max, ranges or step recomputes the value array.
C9_RecomputedOnStepToo ==
  props \cap {"min", "max", "ranges", "step"} # {} => Recomputed

\* C9 as amended: an update cycle whose changed properties include min, max
\* or ranges recomputes the value array.
C9_RecomputedOnMinMaxRanges ==
  props \cap {"min", "max", "ranges"} # {} => Recomputed

\* C9 witness: min alone was changed and the update that followed has
\* recomputed the value array.
C9_Witness == props = {"min"} /\ Recomputed

\* C10: when the update cycles that follow an assignment of step have
\* completed, step is a positive integer.
C10_StepPositive == Quiescent => step >= 1

(***************************************************************************)
(* Claims about invalid ranges (checked under SpecRanges).                 *)
(***************************************************************************)
\* C11: an invalid ranges (negative or NaN) is reset to the default: the
\* update cycle that finds it sets ranges to 0, and when the update cycles
\* have completed ranges is not invalid and ranges = 0 comes with exactly
\* one knob.
C11_InvalidRangesReset ==
  [][/\ (PerformUpdate /\ ranges < 0) => ranges' = 0
     /\ Quiescent' => (ranges' >= 0 /\ (ranges' = 0 => knobCount' = 1))]_vars

\* C11 witness: the update cycle that handled an invalid ranges of a
\* two-knob slider has reset it to 0 (the knobs follow in the next cycle).
C11_Witness ==
  /\ props = {"ranges"} /\ "ranges" \in changed
  /\ ranges = 0 /\ knobCount = 2

(***************************************************************************)
(* Claims about mouse and touch interactions (checked under SpecPointer).  *)
(***************************************************************************)
\* C12: when the mouseup or touchend that ends a drag has been handled (the
\* dragging attribute is removed), no mousemove, touchmove, mouseup or
\* touchend listener of the slider remains registered on document.
C12_ListenersRemoved ==
  [][(dragging /\ ~dragging') => listeners' = {}]_vars

\* C13: once a touchstart has been accepted (Slider.hasTouched is set) the
\* flag never returns to false, and a later mousedown on a knob is
\* rejected: it starts no drag, adds no listener and changes no value.
C13_TouchOnly ==
  [][hasTouched =>
       /\ hasTouched'
       /\ MouseDown(0) =>
            UNCHANGED <<dragging, listeners, value, knob, originalPointerXY,
                        originalKnobOffsetXY>>
       /\ listeners' \cap {"mousemove", "mouseup"} \subseteq listeners]_vars

\* C13 witness: a touch was detected, the drag it started has ended, and a
\* knob is in place for a later mousedown.
C13_Witness ==
  /\ hasTouched /\ ~dragging /\ listeners = {}
  /\ Quiescent /\ pos # <<>> /\ Positioned(This)

(***************************************************************************)
(* Claims about the knobs' effective bounds and aria attributes.           *)
(***************************************************************************)
\* the smallest multiple of st that is >= n, the largest that is <= n
SmallestMultipleGe(n, st) == n + ((0 - n) % st)

LargestMultipleLe(n, st) == n - (n % st)

\* C14: in a multi-knob slider the effective minimum of knob i is min for
\* the first knob and otherwise the smallest multiple of step >= value[i-1];
\* its effective maximum is max for the last knob and otherwise the largest
\* multiple of step <= value[i+1] (checked under SpecKeysFrom).
C14_EffectiveBounds ==
  (Quiescent /\ knobCount > 1 /\ Len(value) = knobCount) =>
    \A i \in knobIndexes(This) :
      /\ getPrevNeighborValue(This, i) =
           (IF i = 0 THEN min ELSE SmallestMultipleGe(value[i], step))
      /\ getNextNeighborValue(This, i) =
           (IF i = knobCount - 1 THEN max ELSE LargestMultipleLe(value[i + 2], step))

\* C15: after every completed update each of the knobCount knobs carries
\* aria-valuenow equal to its current value, with
\* aria-valuemin <= aria-valuenow <= aria-valuemax.  Stated for the states
\* whose values are in range and ascending (checked under SpecKeysFrom).
C15_AriaValues ==
  (Quiescent /\ InRange(values(This)) /\ Ascending(values(This))) =>
    /\ Len(aria) = knobCount
    /\ \A k \in 1 .. knobCount :
         /\ aria[k].now = At(values(This), k - 1)
         /\ JsGe(aria[k].now, aria[k].min)
         /\ JsGe(aria[k].max, aria[k].now)

(***************************************************************************)
(* Claims about the drag direction (checked under SpecDrag).               *)
(***************************************************************************)
\* the pending move of the drag, with its pointer at pageXY instead
MoveTo(pageXY) == [Head(raf) EXCEPT !.pageXY = pageXY]

\* C16: with rtl set, in a single-knob slider a move of the pointer to the
\* track's right end stores min, a move to its left end stores max, and of
\* two pointer positions the one further right never stores the larger
\* value.
C16_RtlReversed ==
  (raf # <<>> /\ rtl /\ knobCount = 1) =>
    /\ dragValue(This, MoveTo(ContainerLeft + ContainerSize)) = min
    /\ dragValue(This, MoveTo(ContainerLeft)) = max
    /\ \A p, q \in PagePositions \ {0} :
         p < q => dragValue(This, MoveTo(q)) <= dragValue(This, MoveTo(p))

(***************************************************************************)
(* Claims about the template element (checked under SpecTemplate).         *)
(***************************************************************************)
\* C17: the template element starts with counter 5 and title "Hey there";
\* every click on its button adds exactly 1 to the counter and leaves the
\* title as it was, so that after n clicks the counter is 5 + n.
C17_CounterIncrements ==
  /\ (counter = 5 /\ title = "Hey there")
  /\ [][(clicks' = clicks + 1) =>
          /\ counter' = counter + 1
          /\ title' = title
          /\ counter' = 5 + clicks']_vars

C17_Witness == clicks = 3 /\ counter = 8 /\ title = "attribute title"

(***************************************************************************)
(* Claims about the keys of a single-knob slider (checked under            *)
(* SpecSingle).                                                            *)
(***************************************************************************)
\* the value the claim gives for a key pressed at value v
SingleKnobTarget(key, v) ==
  CASE key \in {"ArrowRight", "ArrowUp"} -> IF v + step < max THEN v + step ELSE max
    [] key \in {"ArrowLeft", "ArrowDown"} -> IF v - step > min THEN v - step ELSE min
    [] key = "Home" -> min
    [] key = "End" -> max

IsIntegerList(a) == \A k \in DOMAIN a : ~isNaN(a[k])

\* the numbers of a, in ascending order
SortedAscending(a) == CHOOSE b \in sortOutcomes(a) : Ascending(b)

\* C19: the sortedness check answers true exactly for the lists of integers
\* in ascending order (0 and negative numbers included), and the update
\* cycle that follows the assignment of a list that is not ascending
\* replaces it with the same numbers sorted ascending.
C19_UnsortedDetected ==
  [][(/\ PerformUpdate
      /\ changed = {"value"} /\ valueIsArray /\ IsIntegerList(value))
     => /\ isSorted(value) <=> Ascending(value)
        /\ value' = SortedAscending(value)]_vars

(***************************************************************************)
(* Claims about the rendering of sorted values (checked under SpecValue).  *)
(***************************************************************************)
\* the event, the aria-valuenow attributes and the knob positions are those
\* of the list vals
Rendered(t, vals) ==
  /\ t.lastEvent.fired /\ t.lastEvent.values = vals
  /\ Len(t.aria) = t.knobCount /\ Len(t.pos) = t.knobCount
  /\ \A i \in knobIndexes(t) :
       /\ t.aria[i + 1].now = At(vals, i)
       /\ t.pos[i + 1] = knobPosition(t, i, vals)

\* C20: when the update cycle that follows the assignment of a list that is
\* not ascending (or a ranges change that leaves one) has completed, a
\* value-changed event with the values the slider now holds has been
\* dispatched and every knob's aria-valuenow and position are those of its
\* value.
C20_SortedValuesRendered ==
  [][(/\ PerformUpdate
      /\ changed = {"value"} /\ valueIsArray /\ IsIntegerList(value)
      /\ ~Ascending(value) /\ Len(value) = knobCount
      /\ Quiescent')
     => Rendered(This', value')]_vars

(***************************************************************************)
(* Claims about the initial value (checked under SpecInitial).             *)
(***************************************************************************)
\* C21: for every integer min <= max, step >= 1 and ranges >= 0 the initial
\* value has exactly knobCount entries, is sorted ascending and has every
\* entry in [min, max].
C21_InitialValueWellFormed ==
  Quiescent =>
    /\ Len(initialValue(This)) = knobCount
    /\ Ascending(initialValue(This))
    /\ InRange(initialValue(This))

\* C26: in a multi-knob slider the initial value has min as its first
\* entry and max as its last, for every integer min <= max and step >= 1.
C26_InitialValueEnds ==
  (Quiescent /\ knobCount > 1) =>
    /\ initialValue(This)[1] = min
    /\ initialValue(This)[knobCount] = max

(***************************************************************************)
(* Claims about the active class and its timer (checked under SpecActive). *)
(***************************************************************************)
\* knob i and, with tooltips enabled, its tooltip have the active class
IsActive(i, a, ta) == i \in a /\ (tooltips => i \in ta)

C23_KeyMovesFocusedKnob ==
  [][(\E key \in Keys : KeyDown(key)) =>
       /\ UNCHANGED <<min, max, step, ranges>>
       /\ Len(value') = Len(value)
       /\ \A k \in DOMAIN value : k # focused + 1 => value'[k] = value[k]]_vars

\* C24: on a sorted in-range value list, ArrowLeft, ArrowDown and Home
\* never increase the value of the knob they act on and ArrowRight,
\* ArrowUp and End never decrease it.
C24_KeysKeepDirection ==
  [][\A key \in Keys :
       (/\ KeyDown(key)
        /\ Len(value) = knobCount /\ Ascending(value) /\ InRange(value))
       => LET k == knobIndex(This) + 1
          IN  /\ k \in DOMAIN value'
              /\ key \in {"ArrowLeft", "ArrowDown", "Home"} => JsGe(value[k], value'[k])
              /\ key \in {"ArrowRight", "ArrowUp", "End"} => JsGe(value'[k], value[k])]_vars

(***************************************************************************)
(* Claims about the end of a drag (checked under SpecDrag).                *)
(***************************************************************************)
\* C25: while no drag is in progress and no update is pending, no step
\* other than the start of a drag changes value; in particular an
\* animation-frame callback scheduled by a move before the release leaves
\* value as it is.
C25_NoChangeAfterRelease ==
  [][(Quiescent /\ ~dragging /\ ~dragging')
     => (value' = value /\ valueIsArray' = valueIsArray)]_vars

====
